---- MODULE Spec2Model ----
(***************************************************************************)
(* tfocus: resource discovery and targeted execution.                      *)
(*                                                                         *)
(*   types.rs     Resource (full_name, target_string), Target              *)
(*   project.rs   TerraformProject (find_terraform_files, parse_file,      *)
(*                get_resources_by_target)                                 *)
(*   executor.rs  execute_with_resources, the Ctrl+C handler, the          *)
(*                supervised terraform child process                       *)
(*                                                                         *)
(* Rust Strings are TLA+ strings (concatenated with \o) wherever the code  *)
(* only builds and compares them; where the code searches inside a string  *)
(* (contains, a regular expression) the string is a sequence of one        *)
(* character strings.  Option<T> is <<>> for None and <<x>> for Some(x).   *)
(***************************************************************************)
EXTENDS Integers, Sequences, FiniteSets, TLC

VARIABLES
    \* ---- executor.rs: one invocation of execute_with_resources
    pc,             \* position of the main flow
    resources,      \* the &[Resource] argument
    handler,        \* TRUE once ctrlc::set_handler has installed the closure
    running,        \* the Arc<AtomicBool> shared with the handler
    CHILD_PID,      \* static mut CHILD_PID: Option<u32>
    target_options, \* Vec<String> built by create_target_options
    selection,      \* what selector.run() returned, <<>> before it is asked
    operation,      \* Option<Operation> chosen by select_operation
    working_dir,    \* Option<path> resolved by get_working_directory
    child,          \* the spawned terraform process, <<>> before the spawn
    wait_result,    \* what child.wait() returned, <<>> before it returns
    cmd_result,     \* what execute_terraform_command returned
    result,         \* what execute_with_resources returned
    exit_code,      \* Some(code) once std::process::exit was called
    stdout,         \* the follow-up suggestion println!-ed after a plan
    hpc,            \* position of the handler closure
    h_pid,          \* the pid bound by `if let Some(pid) = CHILD_PID`
    h_live,         \* history: the child was live when this run of the
                    \* handler executed r.store(false)
    sigterm_to,     \* the pids signal::kill(.., SIGTERM) was called on
    interrupts,     \* number of Ctrl+C delivered so far
    \* ---- types.rs / executor.rs: calls of the pure functions
    call,           \* the function applied and its argument, <<>> before
    ret,            \* what it returned
    \* ---- project.rs: TerraformProject
    project,        \* self.resources: Vec<Resource>
    target,         \* the Target given to get_resources_by_target
    selected,       \* the Vec<Resource> it returned, <<>> before the call
    fs,             \* the directory tree find_terraform_files walks
    tf_files,       \* the Result<Vec<PathBuf>> it returned, <<>> before the call
    read_dirs,      \* the directories fs::read_dir was called on, in order
    file            \* the file given to parse_file: what its text is made of

exec_vars == <<pc, resources, handler, running, CHILD_PID, target_options,
               selection, operation, working_dir, child, wait_result, cmd_result, result,
               exit_code,
               stdout, hpc, h_pid, h_live, sigterm_to, interrupts>>

lib_vars == <<call, ret, project, target, selected, fs, tf_files, read_dirs, file>>

vars == <<exec_vars, lib_vars>>

None == <<>>
Some(x) == <<x>>
IsSome(o) == o # <<>>
Unwrap(o) == o[1]

\* Result<T, TfocusError>
Ok(v) == [ok |-> TRUE, value |-> v]
Err(k, m) == [ok |-> FALSE, kind |-> k, msg |-> m]

(***************************************************************************)
(* Bounds of the model.                                                    *)
(***************************************************************************)
MaxTargets == 2      \* longest entity list handed to the executor
MaxInterrupts == 2   \* Ctrl+C deliveries in one invocation
MaxEntities == 3     \* longest entity list given to create_target_options
MaxIndex == 3        \* most entities held by a TerraformProject
MaxDepth == 2        \* directories nested below the scanned root
MaxFiles == 2        \* files in the scanned tree
MaxBodyLines == 2    \* lines between a block's header and its closing brace

(***************************************************************************)
(* types.rs: Resource                                                      *)
(***************************************************************************)
\* A path is the sequence of its components; Path::parent drops the last
\* one and is None for the empty path.
Parent(path) == IF path = <<>> THEN None ELSE Some(SubSeq(path, 1, Len(path) - 1))

Resource(ty, nm, mod, fp, hc, hf, idx) ==
    [resource_type |-> ty, name |-> nm, is_module |-> mod, file_path |-> fp,
     has_count |-> hc, has_for_each |-> hf, index |-> idx]

full_name(r) ==
    IF r.is_module
    THEN "module." \o r.name
    ELSE r.resource_type \o "." \o r.name

\* target_string with the for_each arm of the match left out.
target_string_count_only(r) ==
    LET base == full_name(r) IN
    CASE r.has_count /\ IsSome(r.index) -> base \o "[" \o Unwrap(r.index) \o "]"
      [] OTHER -> base

target_string(r) ==
    LET base == full_name(r) IN
    CASE r.has_count /\ IsSome(r.index) -> base \o "[" \o Unwrap(r.index) \o "]"
      [] r.has_for_each /\ IsSome(r.index) -> base \o "[" \o Unwrap(r.index) \o "]"
      [] OTHER -> base

(***************************************************************************)
(* executor.rs: pure helpers                                               *)
(***************************************************************************)
RECURSIVE join(_, _)
join(strs, sep) ==
    IF strs = <<>> THEN ""
    ELSE IF Len(strs) = 1 THEN strs[1]
    ELSE strs[1] \o sep \o join(Tail(strs), sep)

\* create_target_options formatting full_name() instead of target_string().
create_target_options_full_name(rs) ==
    LET opts == [i \in 1..Len(rs) |-> "-target=" \o full_name(rs[i])] IN
    IF opts = <<>>
    THEN Err("ParseError", "No targets specified")
    ELSE Ok(opts)

create_target_options(rs) ==
    LET opts == [i \in 1..Len(rs) |-> "-target=" \o target_string(rs[i])] IN
    IF opts = <<>>
    THEN Err("ParseError", "No targets specified")
    ELSE Ok(opts)

get_working_directory(rs) ==
    IF rs = <<>>
    THEN Err("ParseError", "No resources specified")
    ELSE LET parent == Parent(rs[1].file_path) IN
         Ok(IF IsSome(parent) THEN Unwrap(parent) ELSE <<".">>)

\* impl Display for Operation (crate::cli)
OperationToString(op) == IF op = "Plan" THEN "plan" ELSE "apply"

\* command_args with the approval flag added whatever the operation.
command_args_always_approve(op, opts) ==
    <<OperationToString(op)>> \o opts \o <<"-auto-approve">>

\* The arguments execute_terraform_command gives to Command::new("terraform")
command_args(op, opts) ==
    <<OperationToString(op)>> \o opts
        \o (IF op = "Apply" THEN <<"-auto-approve">> ELSE <<>>)

\* ExitStatus::success
success(status) == status = "exit(0)"

(***************************************************************************)
(* executor.rs: the inputs of one invocation                               *)
(***************************************************************************)
ExecEntities ==
    { Resource("aws_instance", "web", FALSE, <<"main.tf">>, FALSE, FALSE, None),
      Resource("aws_instance", "app", FALSE, <<"env", "app.tf">>, TRUE, FALSE, Some("0")),
      Resource("", "vpc", TRUE, <<"net", "vpc.tf">>, FALSE, TRUE, Some("a")) }

ExecInputs == UNION { [1..n -> ExecEntities] : n \in 0..MaxTargets }

\* What Selector::run can give back for the two items offered.
SelectorRun == { Ok(Some("1")), Ok(Some("2")), Ok(None), Err("SelectorError", "") }

\* child.id() of the spawned process, and the payload word a read of
\* CHILD_PID can see while the write of Some(pid) is in progress.
ChildId == 4242
StalePid == 0

ChildLive == IsSome(child) /\ Unwrap(child).state = "running"

(***************************************************************************)
(* executor.rs: the main flow                                              *)
(***************************************************************************)
\* Nothing has been called yet.
CallIdle ==
    /\ call = None
    /\ ret = None

\* TerraformProject::new(), not queried
IndexIdle ==
    /\ project = <<>>
    /\ target = None
    /\ selected = None

ScanIdle ==
    /\ fs = None
    /\ tf_files = None
    /\ read_dirs = <<>>

ParseIdle == file = None

LibIdle == CallIdle /\ IndexIdle /\ ScanIdle /\ ParseIdle

ExecIdle ==
    /\ pc = "start"
    /\ handler = FALSE
    /\ running = TRUE
    /\ CHILD_PID = None
    /\ target_options = <<>>
    /\ selection = None
    /\ operation = None
    /\ working_dir = None
    /\ child = None
    /\ wait_result = None
    /\ cmd_result = None
    /\ result = None
    /\ exit_code = None
    /\ stdout = <<>>
    /\ hpc = "idle"
    /\ h_pid = None
    /\ h_live = FALSE
    /\ sigterm_to = <<>>
    /\ interrupts = 0

ExecInit ==
    /\ resources \in ExecInputs
    /\ ExecIdle
    /\ LibIdle

handler_vars == <<hpc, h_pid, h_live, sigterm_to, interrupts>>

\* setup_signal_handler: ctrlc::set_handler installs the closure or fails.
SetupSignalHandler ==
    /\ pc = "start"
    /\ \/ /\ handler' = TRUE
          /\ running' = TRUE
          /\ pc' = "armed"
          /\ UNCHANGED result
       \/ /\ result' = Some(Err("CommandExecutionError", "set_handler"))
          /\ pc' = "returned"
          /\ UNCHANGED <<handler, running>>
    /\ UNCHANGED <<resources, CHILD_PID, target_options, selection, operation, working_dir,
                   child, wait_result, cmd_result, exit_code, stdout, handler_vars, lib_vars>>

CreateTargetOptions ==
    /\ pc = "armed"
    /\ LET r == create_target_options(resources) IN
       IF r.ok
       THEN /\ target_options' = r.value
            /\ pc' = "targets"
            /\ UNCHANGED result
       ELSE /\ result' = Some(r)
            /\ pc' = "returned"
            /\ UNCHANGED target_options
    /\ UNCHANGED <<resources, handler, running, CHILD_PID, selection, operation, working_dir,
                   child, wait_result, cmd_result, exit_code, stdout, handler_vars, lib_vars>>

\* select_operation where "no choice" falls back to a plan instead of exiting.
SelectOperation_no_exit ==
    /\ pc = "targets"
    /\ \E sel \in SelectorRun :
        /\ selection' = Some(sel)
        /\ IF ~sel.ok
           THEN /\ result' = Some(sel)
                /\ pc' = "returned"
                /\ UNCHANGED operation
           ELSE /\ operation' = Some(IF sel.value = Some("2") THEN "Apply" ELSE "Plan")
                /\ pc' = "chosen"
                /\ UNCHANGED result
    /\ UNCHANGED <<resources, handler, running, CHILD_PID, target_options, exit_code,
                   stdout, working_dir, child, wait_result, cmd_result, handler_vars, lib_vars>>

\* select_operation: the selector's payload picks the operation; "no choice"
\* prints and calls std::process::exit(0).
SelectOperation ==
    /\ pc = "targets"
    /\ \E sel \in SelectorRun :
        /\ selection' = Some(sel)
        /\ IF ~sel.ok
           THEN /\ result' = Some(sel)
                /\ pc' = "returned"
                /\ UNCHANGED <<operation, exit_code, stdout>>
           ELSE IF sel.value = None
           THEN /\ stdout' = Append(stdout, "\nOperation cancelled")
                /\ exit_code' = Some(0)
                /\ pc' = "exited"
                /\ UNCHANGED <<operation, result>>
           ELSE IF Unwrap(sel.value) = "1"
           THEN /\ operation' = Some("Plan")
                /\ pc' = "chosen"
                /\ UNCHANGED <<result, exit_code, stdout>>
           ELSE IF Unwrap(sel.value) = "2"
           THEN /\ operation' = Some("Apply")
                /\ pc' = "chosen"
                /\ UNCHANGED <<result, exit_code, stdout>>
           ELSE /\ result' = Some(Err("InvalidOperation", Unwrap(sel.value)))
                /\ pc' = "returned"
                /\ UNCHANGED <<operation, exit_code, stdout>>
    /\ UNCHANGED <<resources, handler, running, CHILD_PID, target_options,
                   working_dir, child, wait_result, cmd_result, handler_vars, lib_vars>>

GetWorkingDirectory ==
    /\ pc = "chosen"
    /\ LET r == get_working_directory(resources) IN
       IF r.ok
       THEN /\ working_dir' = Some(r.value)
            /\ pc' = "command"
            /\ UNCHANGED result
       ELSE /\ result' = Some(r)
            /\ pc' = "returned"
            /\ UNCHANGED working_dir
    /\ UNCHANGED <<resources, handler, running, CHILD_PID, target_options, selection,
                   operation, child, wait_result, cmd_result, exit_code, stdout, handler_vars, lib_vars>>

\* execute_terraform_command up to command.spawn()
Spawn ==
    /\ pc = "command"
    /\ \/ /\ child' = Some([pid |-> ChildId,
                            args |-> command_args(Unwrap(operation), target_options),
                            cwd |-> Unwrap(working_dir),
                            state |-> "running",
                            sigterm |-> FALSE,
                            status |-> None])
          /\ pc' = "spawned"
          /\ UNCHANGED cmd_result
       \/ /\ cmd_result' = Some(Err("CommandExecutionError", "spawn"))
          /\ pc' = "executed"
          /\ UNCHANGED child
    /\ UNCHANGED <<resources, handler, running, CHILD_PID, target_options, selection,
                   operation, working_dir, wait_result, result, exit_code, stdout, handler_vars, lib_vars>>

\* unsafe { CHILD_PID = Some(child.id()) }: a plain (non-atomic) write to a
\* static mut that the handler thread reads; it begins ...
RecordPidBegin ==
    /\ pc = "spawned"
    /\ pc' = "recording"
    /\ UNCHANGED <<resources, handler, running, CHILD_PID, target_options, selection,
                   operation, working_dir, child, wait_result, cmd_result, result, exit_code,
                   stdout, handler_vars, lib_vars>>

\* ... and is complete before child.wait() is entered.
RecordPidEnd ==
    /\ pc = "recording"
    /\ CHILD_PID' = Some(Unwrap(child).pid)
    /\ pc' = "waiting"
    /\ UNCHANGED <<resources, handler, running, target_options, selection,
                   operation, working_dir, child, wait_result, cmd_result, result, exit_code,
                   stdout, handler_vars, lib_vars>>

\* The terraform process ends: by itself with status 0 or 1, or killed by a
\* SIGTERM it has received.
ChildExit ==
    /\ ChildLive
    /\ \E status \in {"exit(0)", "exit(1)"}
                     \cup (IF Unwrap(child).sigterm THEN {"signal(15)"} ELSE {}) :
        child' = Some([Unwrap(child) EXCEPT !.state = "exited", !.status = Some(status)])
    /\ UNCHANGED <<pc, resources, handler, running, CHILD_PID, target_options,
                   selection, operation, working_dir, wait_result, cmd_result, result, exit_code,
                   stdout, handler_vars, lib_vars>>

\* child.wait() returns the exit status of the ended child, or an OS error.
Wait ==
    /\ pc = "waiting"
    /\ \/ /\ Unwrap(child).state = "exited"
          /\ wait_result' = Some(Ok(Unwrap(Unwrap(child).status)))
          /\ child' = Some([Unwrap(child) EXCEPT !.state = "reaped"])
       \/ /\ wait_result' = Some(Err("Io", "wait"))
          /\ UNCHANGED child
    /\ pc' = "matching"
    /\ UNCHANGED <<resources, handler, running, CHILD_PID, target_options, selection,
                   operation, working_dir, cmd_result, result, exit_code, stdout, handler_vars, lib_vars>>

\* report without the load of running in the success arm.
report_flag_ignored(waited, flag) ==
    IF waited.ok /\ success(waited.value)
    THEN Ok(TRUE)
    ELSE IF waited.ok
    THEN Err("TerraformError", "Terraform command failed with status: " \o waited.value)
    ELSE Err("CommandExecutionError", "Failed to execute terraform command: " \o waited.msg)

\* The match on child.wait(): running is loaded only in the success arm.
report(waited, flag) ==
    IF waited.ok /\ success(waited.value)
    THEN (IF flag THEN Ok(TRUE) ELSE Ok(FALSE))
    ELSE IF waited.ok
    THEN Err("TerraformError", "Terraform command failed with status: " \o waited.value)
    ELSE Err("CommandExecutionError", "Failed to execute terraform command: " \o waited.msg)

Report ==
    /\ pc = "matching"
    /\ cmd_result' = Some(report(Unwrap(wait_result), running))
    /\ pc' = "executed"
    /\ UNCHANGED <<resources, handler, running, CHILD_PID, target_options, selection,
                   operation, working_dir, child, wait_result, result, exit_code, stdout,
                   handler_vars, lib_vars>>

\* execute_with_resources after execute_terraform_command: `?`, the follow-up
\* suggestion after a successful plan, Ok(()).
Finish ==
    /\ pc = "executed"
    /\ LET r == Unwrap(cmd_result) IN
       IF ~r.ok
       THEN /\ result' = Some(r)
            /\ UNCHANGED stdout
       ELSE /\ result' = Some(Ok("()"))
            /\ stdout' = IF r.value /\ Unwrap(operation) = "Plan"
                         THEN Append(stdout, "  terraform apply " \o join(target_options, " "))
                         ELSE stdout
    /\ pc' = "returned"
    /\ UNCHANGED <<resources, handler, running, CHILD_PID, target_options, selection,
                   operation, working_dir, child, wait_result, cmd_result, exit_code,
                   handler_vars, lib_vars>>

(***************************************************************************)
(* executor.rs: the Ctrl+C handler, run on ctrlc's thread                  *)
(***************************************************************************)
main_vars == <<pc, resources, handler, target_options, selection, operation, working_dir,
               wait_result, cmd_result, result, exit_code, stdout>>

HandlerCanRun == handler /\ pc \notin {"returned", "exited"}

\* r.store(false, Ordering::SeqCst)
HandlerStore ==
    /\ HandlerCanRun
    /\ hpc = "idle"
    /\ interrupts < MaxInterrupts
    /\ interrupts' = interrupts + 1
    /\ running' = FALSE
    /\ h_live' = ChildLive
    /\ hpc' = "stored"
    /\ UNCHANGED <<main_vars, lib_vars, CHILD_PID, child, h_pid, sigterm_to>>

\* What a read of CHILD_PID can give: the stored value, or, while the main
\* flow's unsynchronised write is in progress, any mix of old and new.
ReadChildPid ==
    IF pc = "recording"
    THEN {None, Some(Unwrap(child).pid), Some(StalePid)}
    ELSE {CHILD_PID}

\* if let Some(pid) = CHILD_PID
HandlerRead ==
    /\ HandlerCanRun
    /\ hpc = "stored"
    /\ \E seen \in ReadChildPid :
        /\ h_pid' = seen
        /\ hpc' = IF IsSome(seen) THEN "kill" ELSE "idle"
    /\ UNCHANGED <<main_vars, lib_vars, running, CHILD_PID, child, h_live, sigterm_to, interrupts>>

\* let _ = signal::kill(Pid::from_raw(pid), Signal::SIGTERM)
HandlerKill ==
    /\ HandlerCanRun
    /\ hpc = "kill"
    /\ sigterm_to' = Append(sigterm_to, Unwrap(h_pid))
    /\ child' = IF ChildLive /\ Unwrap(child).pid = Unwrap(h_pid)
                THEN Some([Unwrap(child) EXCEPT !.sigterm = TRUE])
                ELSE child
    /\ hpc' = "idle"
    /\ UNCHANGED <<main_vars, lib_vars, running, CHILD_PID, h_pid, h_live, interrupts>>

ExecNext ==
    \/ SetupSignalHandler
    \/ CreateTargetOptions
    \/ SelectOperation
    \/ GetWorkingDirectory
    \/ Spawn
    \/ RecordPidBegin
    \/ RecordPidEnd
    \/ ChildExit
    \/ Wait
    \/ Report
    \/ Finish
    \/ HandlerStore
    \/ HandlerRead
    \/ HandlerKill

Spec == ExecInit /\ [][ExecNext]_vars

(***************************************************************************)
(* Properties of the executor                                              *)
(***************************************************************************)
Waited == IsSome(wait_result) /\ Unwrap(wait_result).ok

\* C1: once the child was spawned and waited on, a cancellation flag found
\* cleared when the outcome is decided makes the command return Ok(false),
\* whatever the child's exit status; it never returns an error then.
C1_ClearedFlagReportsCancelled ==
    [][(pc = "matching" /\ pc' = "executed" /\ Waited /\ ~running)
          => cmd_result' = Some(Ok(FALSE))]_vars

\* C2: the flag, once cleared by the handler, stays cleared, and whenever the
\* child is found to have exited with status 0 while the flag is cleared the
\* command returns Ok(false), not Ok(true).  So a handler that ran at any
\* point before the child's exit makes a child that exits 0 report Cancelled.
C2_InterruptBeforeExitReportsCancelled ==
    [][/\ ~running => ~running'
       /\ (pc = "matching" /\ pc' = "executed" /\ Waited
             /\ success(Unwrap(wait_result).value) /\ ~running)
          => cmd_result' = Some(Ok(FALSE))]_vars

\* The child received the handler's SIGTERM while it ran, still exited 0, and
\* the command returned Ok(false).
C2_Witness ==
    /\ pc = "executed"
    /\ wait_result = Some(Ok("exit(0)"))
    /\ Unwrap(child).sigterm
    /\ cmd_result = Some(Ok(FALSE))

\* C8: when the operation selector returns "no choice", the invocation ends
\* with process exit code 0 and does nothing more: no working directory is
\* resolved, no process is spawned, no child pid is recorded, and no step of
\* the invocation can follow.
C8_NoChoiceExitsZero ==
    selection = Some(Ok(None)) =>
        /\ pc = "exited"
        /\ exit_code = Some(0)
        /\ result = None
        /\ operation = None
        /\ working_dir = None
        /\ child = None
        /\ CHILD_PID = None
        /\ sigterm_to = <<>>
        /\ ~ENABLED ExecNext

C8_Witness ==
    /\ selection = Some(Ok(None))
    /\ resources # <<>>
    /\ pc = "exited"

\* C9: the spawned process's arguments are the operation keyword, then one
\* -target= flag per entity of the list in its order, then -auto-approve
\* exactly for Apply; there is always at least one -target= flag.
C9_SpawnedArguments ==
    IsSome(child) =>
        LET args == Unwrap(child).args
            n == Len(resources)
            op == Unwrap(operation)
        IN /\ n >= 1
           /\ Len(args) = 1 + n + (IF op = "Apply" THEN 1 ELSE 0)
           /\ args[1] = OperationToString(op)
           /\ \A i \in 1..n : args[1 + i] = "-target=" \o target_string(resources[i])
           /\ op = "Apply" => args[Len(args)] = "-auto-approve"
           /\ op = "Plan" => \A i \in 1..Len(args) : args[i] # "-auto-approve"

C9_Witness ==
    /\ IsSome(child)
    /\ operation = Some("Plan")
    /\ Len(resources) = 2
    /\ resources[1] # resources[2]

\* C10: a run of the handler that cleared the flag while the child was live
\* (spawned, not yet exited) has sent SIGTERM to that child by the time it
\* returns.
C10_InterruptOfLiveChildSendsSigterm ==
    (hpc = "idle" /\ h_live) =>
        (sigterm_to # <<>> /\ sigterm_to[Len(sigterm_to)] = ChildId)

(***************************************************************************)
(* types.rs, executor.rs: the pure functions applied to any entity         *)
(***************************************************************************)
Lists(S, n) == UNION { [1..k -> S] : k \in 0..n }

\* The two entities of executor.rs test_create_target_options.
TestWeb == Resource("aws_instance", "web", FALSE, <<"main.tf">>, FALSE, FALSE, None)
TestApp == Resource("aws_instance", "app", FALSE, <<"main.tf">>, TRUE, FALSE, Some("0"))

ListEntities ==
    { TestWeb, TestApp,
      Resource("", "vpc", TRUE, <<"main.tf">>, FALSE, TRUE, Some("a")),
      Resource("aws_instance", "web", FALSE, <<"main.tf">>, FALSE, FALSE, Some("1")) }

EntityUniverse ==
    { Resource(ty, nm, mod, <<"main.tf">>, hc, hf, idx) :
        ty \in {"aws_instance", ""}, nm \in {"web", "app"}, mod \in BOOLEAN,
        hc \in BOOLEAN, hf \in BOOLEAN, idx \in {None, Some("0"), Some("a")} }

EntityInit ==
    /\ resources \in Lists(ListEntities, MaxEntities) \cup { <<e>> : e \in EntityUniverse }
    /\ ExecIdle
    /\ LibIdle

CallFullName ==
    /\ \E i \in 1..Len(resources) :
        /\ call' = Some([fn |-> "full_name", arg |-> resources[i]])
        /\ ret' = full_name(resources[i])
    /\ UNCHANGED <<exec_vars, project, target, selected, fs, tf_files, read_dirs, file>>

CallTargetString ==
    /\ \E i \in 1..Len(resources) :
        /\ call' = Some([fn |-> "target_string", arg |-> resources[i]])
        /\ ret' = target_string(resources[i])
    /\ UNCHANGED <<exec_vars, project, target, selected, fs, tf_files, read_dirs, file>>

CallCreateTargetOptions ==
    /\ call' = Some([fn |-> "create_target_options", arg |-> resources])
    /\ ret' = create_target_options(resources)
    /\ UNCHANGED <<exec_vars, project, target, selected, fs, tf_files, read_dirs, file>>

EntityNext ==
    \/ CallFullName
    \/ CallTargetString
    \/ CallCreateTargetOptions

SpecEntity == EntityInit /\ [][EntityNext]_vars

Called(fn) == IsSome(call) /\ Unwrap(call).fn = fn

\* C3: create_target_options fails with "No targets specified" exactly for the
\* empty list; for a list of n entities it returns n strings, the i-th being
\* "-target=" followed by target_string() of the i-th entity.
C3_CreateTargetOptions ==
    Called("create_target_options") =>
        LET rs == Unwrap(call).arg IN
        /\ ~ret.ok <=> rs = <<>>
        /\ ~ret.ok => ret = Err("ParseError", "No targets specified")
        /\ ret.ok =>
            /\ Len(ret.value) = Len(rs)
            /\ \A i \in 1..Len(rs) : ret.value[i] = "-target=" \o target_string(rs[i])
        /\ rs = <<TestWeb, TestApp>> =>
            ret = Ok(<<"-target=aws_instance.web", "-target=aws_instance.app[0]">>)

C3_Witness ==
    /\ Called("create_target_options")
    /\ Unwrap(call).arg = <<TestApp, TestWeb, TestApp>>
    /\ ret = Ok(<<"-target=aws_instance.app[0]", "-target=aws_instance.web",
                  "-target=aws_instance.app[0]">>)

\* C4: full_name() is "module.<name>" for a module and "<resource_type>.<name>"
\* otherwise; target_string() is full_name() followed by "[<index>]" exactly
\* when the index is set and has_count or has_for_each is true, and is
\* full_name() in every other case.
C4_FullNameAndTargetString ==
    /\ Called("full_name") =>
        LET e == Unwrap(call).arg IN
        /\ e.is_module => ret = "module." \o e.name
        /\ ~e.is_module => ret = e.resource_type \o "." \o e.name
    /\ Called("target_string") =>
        LET e == Unwrap(call).arg
            indexed == IsSome(e.index) /\ (e.has_count \/ e.has_for_each)
        IN /\ indexed => ret = full_name(e) \o "[" \o Unwrap(e.index) \o "]"
           /\ ~indexed => ret = full_name(e)
           /\ e = TestApp => ret = "aws_instance.app[0]"
           /\ e = TestWeb => ret = "aws_instance.web"

C4_Witness ==
    /\ Called("target_string")
    /\ LET e == Unwrap(call).arg IN
       /\ e.is_module /\ ~e.has_count /\ e.has_for_each /\ e.index = Some("a")
       /\ e.name = "web"
    /\ ret = "module.web[a]"

(***************************************************************************)
(* types.rs: Target; project.rs: get_resources_by_target                   *)
(***************************************************************************)
TargetFile(path) == [kind |-> "File", path |-> path]
TargetModule(name) == [kind |-> "Module", name |-> name]
TargetResource(ty, name) == [kind |-> "Resource", resource_type |-> ty, name |-> name]

\* get_resources_by_target with the Module arm comparing the name only.
get_resources_by_target_name_only(rs, t) ==
    CASE t.kind = "File" ->
            SelectSeq(rs, LAMBDA r : r.file_path = t.path)
      [] t.kind = "Module" ->
            SelectSeq(rs, LAMBDA r : r.name = t.name)
      [] t.kind = "Resource" ->
            SelectSeq(rs, LAMBDA r : ~r.is_module /\ r.resource_type = t.resource_type
                                       /\ r.name = t.name)

get_resources_by_target(rs, t) ==
    CASE t.kind = "File" ->
            SelectSeq(rs, LAMBDA r : r.file_path = t.path)
      [] t.kind = "Module" ->
            SelectSeq(rs, LAMBDA r : r.is_module /\ r.name = t.name)
      [] t.kind = "Resource" ->
            SelectSeq(rs, LAMBDA r : ~r.is_module /\ r.resource_type = t.resource_type
                                       /\ r.name = t.name)

IndexEntities ==
    { Resource("aws_instance", "web", FALSE, <<"main.tf">>, TRUE, FALSE, None),
      Resource("local_file", "web", FALSE, <<"main.tf">>, FALSE, FALSE, None),
      Resource("aws_instance", "app", FALSE, <<"net", "vpc.tf">>, FALSE, FALSE, None),
      Resource("", "web", TRUE, <<"main.tf">>, FALSE, FALSE, None),
      Resource("", "app", TRUE, <<"net", "vpc.tf">>, FALSE, TRUE, None),
      Resource("aws_instance", "web", TRUE, <<"net", "vpc.tf">>, FALSE, FALSE, None) }

Targets ==
    { TargetFile(<<"main.tf">>), TargetFile(<<"net", "vpc.tf">>), TargetFile(<<"net">>),
      TargetModule("web"), TargetModule("app"), TargetModule("db"),
      TargetResource("aws_instance", "web"), TargetResource("local_file", "web"),
      TargetResource("", "web"), TargetResource("local_file", "app") }

IndexInit ==
    /\ project \in Lists(IndexEntities, MaxIndex)
    /\ target = None
    /\ selected = None
    /\ resources = <<>>
    /\ ExecIdle
    /\ CallIdle
    /\ ScanIdle
    /\ ParseIdle

GetResourcesByTarget ==
    /\ \E t \in Targets :
        /\ target' = Some(t)
        /\ selected' = Some(get_resources_by_target(project, t))
    /\ UNCHANGED <<exec_vars, call, ret, project, fs, tf_files, read_dirs, file>>

IndexNext == GetResourcesByTarget

SpecIndex == IndexInit /\ [][IndexNext]_vars

\* Whether the claim counts entity e as matching target t.
Matches(e, t) ==
    \/ t.kind = "File" /\ e.file_path = t.path
    \/ t.kind = "Module" /\ e.is_module /\ e.name = t.name
    \/ t.kind = "Resource" /\ ~e.is_module /\ e.resource_type = t.resource_type
          /\ e.name = t.name

\* C5: get_resources_by_target returns exactly the stored entities matching
\* the target, in stored order: for Module only modules, for Resource only
\* resources, for File both kinds; an empty collection when nothing matches.
C5_ResourcesByTarget ==
    IsSome(selected) =>
        LET t == Unwrap(target)
            got == Unwrap(selected)
            hits == { i \in 1..Len(project) : Matches(project[i], t) }
            nth(k) == CHOOSE i \in hits : Cardinality({ j \in hits : j < i }) = k - 1
        IN /\ Len(got) = Cardinality(hits)
           /\ \A k \in 1..Len(got) : got[k] = project[nth(k)]
           /\ t.kind = "Module" => \A k \in 1..Len(got) : got[k].is_module
           /\ t.kind = "Resource" => \A k \in 1..Len(got) : ~got[k].is_module
           /\ hits = {} => got = <<>>

\* A resource and a module of the same name are stored; the Module target
\* returns the module only.
C5_Witness ==
    /\ target = Some(TargetModule("web"))
    /\ \E i, j \in 1..Len(project) :
        /\ ~project[i].is_module /\ project[i].name = "web"
        /\ project[j].is_module /\ project[j].name = "web"
    /\ Len(Unwrap(selected)) = 1
    /\ Len(project) = 3

(***************************************************************************)
(* Strings the code searches in: sequences of characters                   *)
(***************************************************************************)
\* str::contains
Contains(hay, needle) ==
    \E i \in 1..(Len(hay) - Len(needle) + 1) :
        SubSeq(hay, i, i + Len(needle) - 1) = needle

\* The characters of each file and directory name of the scanned trees.
Chars(name) ==
    CASE name = "." -> <<".">>
      [] name = ".git" -> <<".", "g", "i", "t">>
      [] name = ".terraform" -> <<".", "t", "e", "r", "r", "a", "f", "o", "r", "m">>
      [] name = "mod" -> <<"m", "o", "d">>
      [] name = "main.tf" -> <<"m", "a", "i", "n", ".", "t", "f">>
      [] name = "notes.txt" -> <<"n", "o", "t", "e", "s", ".", "t", "x", "t">>

\* Path::to_string_lossy: the components separated by "/"
RECURSIVE to_string_lossy(_)
to_string_lossy(path) ==
    IF path = <<>> THEN <<>>
    ELSE IF Len(path) = 1 THEN Chars(path[1])
    ELSE to_string_lossy(SubSeq(path, 1, Len(path) - 1)) \o <<"/">> \o Chars(path[Len(path)])

\* Path::extension: what follows the last "." of the file name, None when
\* there is no "." or the only one starts the name.
extension(path) ==
    LET name == Chars(path[Len(path)])
        dots == { i \in 1..Len(name) : name[i] = "." }
        last == CHOOSE i \in dots : \A j \in dots : j <= i
    IN IF dots = {} \/ last = 1
       THEN None
       ELSE Some(SubSeq(name, last + 1, Len(name)))

DotTerraform == <<"/", ".", "t", "e", "r", "r", "a", "f", "o", "r", "m", "/">>
DotGit == <<"/", ".", "g", "i", "t", "/">>
Tf == <<"t", "f">>

(***************************************************************************)
(* project.rs: find_terraform_files                                        *)
(***************************************************************************)
Root == <<".">>
DirNames == {".git", ".terraform", "mod"}
FileNames == {"main.tf", "notes.txt"}
\* The two orders in which fs::read_dir lists a directory in this model.
NameOrder == <<".git", ".terraform", "main.tf", "mod", "notes.txt">>

RECURSIVE DirPaths(_)
DirPaths(depth) ==
    IF depth = 0 THEN {Root}
    ELSE DirPaths(depth - 1)
           \cup { Append(d, n) : d \in DirPaths(depth - 1), n \in DirNames }

CandidateFiles == { Append(d, f) : d \in DirPaths(MaxDepth), f \in FileNames }

IsPrefix(p, q) == Len(p) <= Len(q) /\ SubSeq(q, 1, Len(p)) = p

is_file(path) == path \in fs.files
is_dir(path) == path = Root \/ \E f \in fs.files : Len(path) < Len(f) /\ IsPrefix(path, f)

Reverse(seq) == [i \in 1..Len(seq) |-> seq[Len(seq) + 1 - i]]

\* fs::read_dir(dir): entry.path() of every entry, in the directory's order.
read_dir(dir) ==
    LET order == IF fs.reversed THEN Reverse(NameOrder) ELSE NameOrder
        paths == [i \in 1..Len(order) |-> Append(dir, order[i])]
    IN SelectSeq(paths, LAMBDA path : is_file(path) \/ is_dir(path))

\* The test both branches apply to a path.
in_dot_terraform(path) == Contains(to_string_lossy(path), DotTerraform)
in_dot_git(path) == Contains(to_string_lossy(path), DotGit)

\* The walk: the files collected and the directories read, or the read_dir
\* error that ends it.
RECURSIVE walk(_)
RECURSIVE walk_entries(_, _)
walk(dir) ==
    IF dir \in fs.unreadable
    THEN [ok |-> FALSE, files |-> <<>>, listed |-> <<dir>>]
    ELSE walk_entries(read_dir(dir), [ok |-> TRUE, files |-> <<>>, listed |-> <<dir>>])

walk_entries(entries, acc) ==
    IF entries = <<>> THEN acc
    ELSE LET path == Head(entries) IN
         IF is_file(path)
         THEN IF extension(path) = Some(Tf) /\ ~in_dot_terraform(path)
              THEN walk_entries(Tail(entries), [acc EXCEPT !.files = Append(@, path)])
              ELSE walk_entries(Tail(entries), acc)
         ELSE IF is_dir(path) /\ ~in_dot_terraform(path) /\ ~in_dot_git(path)
         THEN LET sub == walk(path) IN
              IF sub.ok
              THEN walk_entries(Tail(entries),
                                [acc EXCEPT !.files = @ \o sub.files,
                                            !.listed = @ \o sub.listed])
              ELSE [sub EXCEPT !.listed = acc.listed \o @]
         ELSE walk_entries(Tail(entries), acc)

find_terraform_files(dir) ==
    LET w == walk(dir) IN
    IF w.ok THEN Ok(w.files) ELSE Err("Io", "read_dir")

\* The subsets of S of at most n elements.
RECURSIVE UpTo(_, _)
UpTo(S, n) ==
    IF n = 0 THEN {{}}
    ELSE UpTo(S, n - 1) \cup { P \cup {x} : P \in UpTo(S, n - 1), x \in S }

Trees ==
    { [files |-> fl, reversed |-> rv, unreadable |-> un] :
        fl \in UpTo(CandidateFiles, MaxFiles),
        rv \in BOOLEAN,
        un \in {{}, {Append(Root, "mod")}} }

ScanInit ==
    /\ fs \in Trees
    /\ tf_files = None
    /\ read_dirs = <<>>
    /\ resources = <<>>
    /\ ExecIdle
    /\ CallIdle
    /\ IndexIdle
    /\ ParseIdle

FindTerraformFiles ==
    /\ tf_files = None
    /\ tf_files' = Some(find_terraform_files(Root))
    /\ read_dirs' = walk(Root).listed
    /\ UNCHANGED <<exec_vars, call, ret, project, target, selected, fs, file>>

ScanNext == FindTerraformFiles

SpecScan == ScanInit /\ [][ScanNext]_vars

\* Whether a directory named .terraform or .git lies on the way to the path.
InExcludedDir(path) ==
    \E i \in 1..(Len(path) - 1) : path[i] \in {".terraform", ".git"}

\* C6: the result of find_terraform_files holds no path with a .terraform or
\* .git directory segment, and holds every .tf file outside such directories.
C6_NoFileFromExcludedDirs ==
    (IsSome(tf_files) /\ Unwrap(tf_files).ok) =>
        LET found == Unwrap(tf_files).value IN
        /\ \A k \in 1..Len(found) : ~InExcludedDir(found[k])
        /\ \A f \in fs.files :
              (extension(f) = Some(Tf) /\ ~InExcludedDir(f))
                  => \E k \in 1..Len(found) : found[k] = f

(***************************************************************************)
(* project.rs: parse_file -- the two regular expressions                   *)
(*                                                                         *)
(*   (?m)^\s*resource\s+"([^"]+)"\s+"([^"]+)"\s*\{(?s:.*?)\n\s*\}          *)
(*   (?m)^\s*module\s+"([^"]+)"\s*\{(?s:.*?)\n\s*\}                        *)
(*                                                                         *)
(* Every piece of these patterns has one way to match at a given place     *)
(* (\s* and \s+ are followed by a non-space, [^"]+ by a quote, the lazy    *)
(* .*? takes the first "\n\s*}" that follows), so a match attempt is a     *)
(* left-to-right walk.                                                     *)
(***************************************************************************)
\* \s
IsSpace(c) == c \in {" ", "\n", "\t"}

\* The first position from i on that holds no \s (Len(text) + 1 if none).
RECURSIVE SkipSpace(_, _)
SkipSpace(text, i) ==
    IF i <= Len(text) /\ IsSpace(text[i]) THEN SkipSpace(text, i + 1) ELSE i

\* The first position from i on that holds c (Len(text) + 1 if none).
RECURSIVE IndexOf(_, _, _)
IndexOf(text, c, i) ==
    IF i <= Len(text) /\ text[i] # c THEN IndexOf(text, c, i + 1) ELSE i

LiteralAt(text, i, lit) ==
    i + Len(lit) - 1 <= Len(text) /\ SubSeq(text, i, i + Len(lit) - 1) = lit

NoMatch == [ok |-> FALSE]

\* "([^"]+)" at i: the capture and the position after the closing quote.
QuotedAt(text, i) ==
    IF i <= Len(text) /\ text[i] = "\""
    THEN LET close == IndexOf(text, "\"", i + 1) IN
         IF close <= Len(text) /\ close > i + 1
         THEN [ok |-> TRUE, cap |-> SubSeq(text, i + 1, close - 1), next |-> close + 1]
         ELSE NoMatch
    ELSE NoMatch

\* \s+ then "([^"]+)", `tokens` times, from i.
RECURSIVE TokensAt(_, _, _, _)
TokensAt(text, i, tokens, caps) ==
    IF tokens = 0 THEN [ok |-> TRUE, caps |-> caps, next |-> i]
    ELSE LET j == SkipSpace(text, i)
             q == QuotedAt(text, j)
         IN IF j > i /\ q.ok
            THEN TokensAt(text, q.next, tokens - 1, Append(caps, q.cap))
            ELSE NoMatch

\* (?s:.*?)\n\s*\} from i: the position of the closing brace, which follows
\* the first newline after which only \s stands before a "}"; 0 if none.
RECURSIVE BlockEnd(_, _)
BlockEnd(text, i) ==
    LET nl == IndexOf(text, "\n", i)
        brace == SkipSpace(text, nl + 1)
    IN IF nl > Len(text) THEN 0
       ELSE IF brace <= Len(text) /\ text[brace] = "}" THEN brace
       ELSE BlockEnd(text, nl + 1)

\* (?m)^
LineStart(text, i) == i = 1 \/ text[i - 1] = "\n"

\* One attempt of the pattern for `keyword` with `tokens` quoted tokens at i.
MatchAt(text, i, keyword, tokens) ==
    LET kw == SkipSpace(text, i) IN
    IF LineStart(text, i) /\ LiteralAt(text, kw, keyword)
    THEN LET toks == TokensAt(text, kw + Len(keyword), tokens, <<>>) IN
         IF toks.ok
         THEN LET open == SkipSpace(text, toks.next) IN
              IF open <= Len(text) /\ text[open] = "{" /\ BlockEnd(text, open + 1) > 0
              THEN [ok |-> TRUE, start |-> i, end |-> BlockEnd(text, open + 1),
                    caps |-> toks.caps]
              ELSE NoMatch
         ELSE NoMatch
    ELSE NoMatch

\* Regex::captures_iter: the leftmost match from `from` on, then the matches
\* after its end.  Only a line start can begin a match, so the search goes
\* from one line start to the next.
RECURSIVE captures_iter(_, _, _, _)
captures_iter(text, from, keyword, tokens) ==
    IF from > Len(text) THEN <<>>
    ELSE LET m == MatchAt(text, from, keyword, tokens) IN
         IF m.ok
         THEN <<m>> \o captures_iter(text, m.end + 1, keyword, tokens)
         ELSE captures_iter(text, IndexOf(text, "\n", from) + 1, keyword, tokens)

KwResource == <<"r", "e", "s", "o", "u", "r", "c", "e">>
KwModule == <<"m", "o", "d", "u", "l", "e">>
CountEq == <<"c", "o", "u", "n", "t", " ", "=">>
CountEqTight == <<"c", "o", "u", "n", "t", "=">>
ForEachEq == <<"f", "o", "r", "_", "e", "a", "c", "h", " ", "=">>
ForEachEqTight == <<"f", "o", "r", "_", "e", "a", "c", "h", "=">>

\* resource_of with has_count and has_for_each looked up in the whole file.
resource_of_whole_file(text, m, path, is_module) ==
    Resource(IF is_module THEN <<>> ELSE m.caps[1],
             IF is_module THEN m.caps[1] ELSE m.caps[2],
             is_module, path,
             Contains(text, CountEq) \/ Contains(text, CountEqTight),
             Contains(text, ForEachEq) \/ Contains(text, ForEachEqTight),
             None)

\* The Resource parse_file pushes for one match.
resource_of(text, m, path, is_module) ==
    LET full_block == SubSeq(text, m.start, m.end) IN
    Resource(IF is_module THEN <<>> ELSE m.caps[1],
             IF is_module THEN m.caps[1] ELSE m.caps[2],
             is_module, path,
             Contains(full_block, CountEq) \/ Contains(full_block, CountEqTight),
             Contains(full_block, ForEachEq) \/ Contains(full_block, ForEachEqTight),
             None)

\* parse_file on the text read: the entities to push, resources first.
parsed_entities(text, path) ==
    LET res == captures_iter(text, 1, KwResource, 2)
        mods == captures_iter(text, 1, KwModule, 1)
    IN [i \in 1..Len(res) |-> resource_of(text, res[i], path, FALSE)]
         \o [i \in 1..Len(mods) |-> resource_of(text, mods[i], path, TRUE)]

(***************************************************************************)
(* project.rs: parse_file on files holding one block                       *)
(***************************************************************************)
CountSpaced == <<" ", " ", "c", "o", "u", "n", "t", " ", "=", " ", "2">>
CountTight == <<" ", " ", "c", "o", "u", "n", "t", "=", "2">>
ForEachSpaced == <<" ", " ", "f", "o", "r", "_", "e", "a", "c", "h", " ", "=", " ", "x">>
ForEachTight == <<" ", " ", "f", "o", "r", "_", "e", "a", "c", "h", "=", "x">>
Ami == <<" ", " ", "a", "m", "i", " ", "=", " ", "\"", "a", "\"">>
Account == <<" ", " ", "a", "c", "c", "o", "u", "n", "t", " ", "=", " ", "1">>

BodyLines == {CountSpaced, CountTight, ForEachSpaced, ForEachTight, Ami, Account}
Indents == {<<>>, <<" ", " ", " ", " ">>}
BeforeBlock == {<<>>, <<"\n">>, <<"#", " ", "c", "o", "u", "n", "t", " ", "=", " ", "1", "\n">>}
AfterBlock == {<<>>, <<"#", " ", "f", "o", "r", "_", "e", "a", "c", "h", " ", "=", " ", "x", "\n">>}
TypeToken == <<"a", "w", "s", "_", "i", "n", "s", "t", "a", "n", "c", "e">>
NameToken == <<"w", "e", "b">>

RECURSIVE Flatten(_)
Flatten(lines) ==
    IF lines = <<>> THEN <<>> ELSE Head(lines) \o <<"\n">> \o Flatten(Tail(lines))

\* The text of the block alone: header line, body lines, closing brace.
BlockText(f) ==
    f.indent
      \o (IF f.keyword = "module"
          THEN KwModule \o <<" ", "\"">> \o NameToken \o <<"\"", " ", "{", "\n">>
          ELSE KwResource \o <<" ", "\"">> \o TypeToken \o <<"\"", " ", "\"">>
                 \o NameToken \o <<"\"", " ", "{", "\n">>)
      \o Flatten([i \in 1..Len(f.body) |-> f.indent \o f.body[i]])
      \o f.indent \o <<"}">>

\* fs::read_to_string(path) of a readable file
FileText(f) == f.before \o BlockText(f) \o <<"\n">> \o f.after

OneBlockFiles ==
    { [path |-> <<"main.tf">>, readable |-> TRUE, keyword |-> kw, indent |-> ind,
       body |-> body, before |-> bf, after |-> af] :
        kw \in {"resource", "module"}, ind \in Indents,
        body \in Lists(BodyLines, MaxBodyLines),
        bf \in BeforeBlock, af \in AfterBlock }

Unreadable ==
    [path |-> <<"main.tf">>, readable |-> FALSE, keyword |-> "resource", indent |-> <<>>,
     body |-> <<>>, before |-> <<>>, after |-> <<>>]

ParseInit ==
    /\ file \in OneBlockFiles \cup {Unreadable}
    /\ project \in {<<>>, <<TestWeb>>}
    /\ ret = None
    /\ call = None
    /\ target = None
    /\ selected = None
    /\ resources = <<>>
    /\ ExecIdle
    /\ ScanIdle

\* parse_file(&mut self, path)
ParseFile ==
    /\ ret = None
    /\ IF file.readable
       THEN /\ project' = project \o parsed_entities(FileText(file), file.path)
            /\ ret' = Ok("()")
       ELSE /\ ret' = Err("Io", "read_to_string")
            /\ UNCHANGED project
    /\ UNCHANGED <<exec_vars, call, target, selected, fs, tf_files, read_dirs, file>>

ParseNext == ParseFile

SpecParse == ParseInit /\ [][ParseNext]_vars

IsExcludedDir(dir) ==
    \E i \in 1..Len(dir) : dir[i] \in {".terraform", ".git"}

\* C11: during a scan no directory named .terraform or .git, and no directory
\* beneath one, is given to fs::read_dir: the walk is pruned at the excluded
\* directory itself.
C11_NeverReadsExcludedDir ==
    \A k \in 1..Len(read_dirs) : ~IsExcludedDir(read_dirs[k])

====
